---- MODULE Spec2Model ----
(***************************************************************************)
(* CodeChat daemon: the project indexing core.                             *)
(*                                                                         *)
(*   VectorDB  (codechat/vector_db.py)  a FAISS IndexIDMap(IndexFlatL2)    *)
(*             with two dictionaries and a persisted image on disk         *)
(*   Indexer   (codechat/indexer.py)    build_index, process_file_event,   *)
(*             query                                                       *)
(*   Watcher   (codechat/watcher.py)    the thread that delivers events    *)
(*                                                                         *)
(* A vector is modelled by one float32 component, written <<x>>; the       *)
(* empty tuple <<>> is Python's None (and is falsy like None).             *)
(***************************************************************************)
EXTENDS Integers, Sequences, FiniteSets, TLC

VARIABLES
    fs,       \* the project directory: path -> file content (a partial function)
    vdb,      \* Indexer.vdb, the live VectorDB object
    disk,     \* the cache directory: faiss.idx and meta_plus.pkl
    dgraph,   \* Indexer.dgraph: the node set of the dependency graph
    running,  \* TRUE while a daemon process (an Indexer object) exists
    queue,    \* Watcher: the file events the observer has not yet dispatched
    pc,       \* position of the watcher thread inside process_file_event
    shadow,   \* ghost: path -> what the last effective add of that path passed
    last      \* ghost: the last completed operation, its inputs and its result

vars == <<fs, vdb, disk, dgraph, running, queue, pc, shadow, last>>

----------------------------------------------------------------------------
(* Bounds of the model *)

\* handles are allocated below this bound (caps VectorDB._next_faiss_id)
MaxHandle == 3

\* largest top_k a search is asked for
MaxTopK == 2

\* file events waiting in the observer's queue: the project directory
\* changes no faster than the watcher thread follows
MaxQueue == 1

Paths == {"a.py", "b.py"}

\* the order in which file discovery lists the project files
PathOrder == <<".gitignore", "a.py", "b.py", "gen.py">>

\* the file and the paths that events for irrelevant paths are about:
\* while .gitignore exists it excludes gen.py; pkg is a directory of the
\* project and OutsidePath a file outside the project root
GitIgnoreFile == ".gitignore"

GeneratedPath == "gen.py"

DirPath == "pkg"

OutsidePath == "/elsewhere/x.py"

\* A file content is <<head, tail>>: head stands for the leading MAX_CHARS
\* characters, tail for everything past them.
\* The two contents differ only past the truncation boundary.
Contents == {<<1, 0>>, <<1, 1>>}

\* texts a query is made with (as the head of a content)
QueryTexts == {1}

\* float32 values are the even numbers; vectors handed to add by a caller
Vecs == {<<2>>, <<4>>}

\* the (contentHash, vector) pairs a caller hands to add
StoreEntries == {[hash |-> 10, vec |-> <<2>>], [hash |-> 11, vec |-> <<4>>]}

None == <<>>

----------------------------------------------------------------------------
(* Python dictionaries as partial functions *)

EmptyMap == [x \in {} |-> 0]

MapPut(f, k, v) == [x \in (DOMAIN f) \cup {k} |-> IF x = k THEN v ELSE f[x]]

MapDel(f, k) == [x \in (DOMAIN f) \ {k} |-> f[x]]

MapGet(f, k) == IF k \in DOMAIN f THEN <<f[k]>> ELSE None

Range(f) == {f[x] : x \in DOMAIN f}

----------------------------------------------------------------------------
(* hashlib.sha256 of the full text, and the text handed to the embedding   *)

Sha256(content) == 10 * content[1] + content[2]

TextForEmbedding(content) == content[1]

\* np.asarray(vector, dtype="float32"): rounds each component to float32
F32(vec) == <<2 * (vec[1] \div 2)>>

\* the embedding service: a float32-exact vector determined by its input text
EmbedVec(text) == <<2 * text>>

----------------------------------------------------------------------------
(* FAISS IndexIDMap(IndexFlatL2): a sequence of rows [id, vec]. The flat   *)
(* sub-index stores the vectors by position, id_map holds the custom ids.  *)

EmptyIndex == <<>>

Ntotal(index) == Len(index)

AddWithIds(index, vec, id) == Append(index, [id |-> id, vec |-> vec])

\* IndexIDMap.remove_ids: drops the rows whose id is selected and compacts
RemoveIds(index, id) == SelectSeq(index, LAMBDA row : row.id # id)

\* IndexFlat.reconstruct(key): the vector at POSITION key (0-based)
FlatReconstruct(index, key) == index[key + 1].vec

IndexIds(index) == {index[i].id : i \in 1..Len(index)}

\* squared L2 distance
L2(q, v) == (q[1] - v[1]) * (q[1] - v[1])

----------------------------------------------------------------------------
(* VectorDB *)

DefaultDim == 1536

EmptyStore ==
    [dim |-> DefaultDim, index |-> EmptyIndex, meta_data |-> EmptyMap,
     path_to_faiss_id |-> EmptyMap, next_faiss_id |-> 0]

\* the "clean up stale mapping" lines shared by the cleanup paths
\* dropping the path only, the metadata entry left behind
DropPathOnly(s, path_str, faiss_id) ==
    [s EXCEPT !.path_to_faiss_id = MapDel(@, path_str)]

DropMapping(s, path_str, faiss_id) ==
    [s EXCEPT !.meta_data = MapDel(@, faiss_id),
              !.path_to_faiss_id = MapDel(@, path_str)]

ValidateAndCleanupStaleMappings(s) ==
    LET stale == {p \in DOMAIN s.path_to_faiss_id :
                     s.path_to_faiss_id[p] >= Ntotal(s.index)}
        staleIds == {s.path_to_faiss_id[p] : p \in stale}
    IN [s EXCEPT !.path_to_faiss_id = [p \in (DOMAIN @) \ stale |-> @[p]],
                 !.meta_data = [h \in (DOMAIN @) \ staleIds |-> @[h]]]

\* remove_by_path that forgets the path and keeps its row and metadata
RemoveByPathMapOnly(s, path_str) ==
    IF path_str \notin DOMAIN s.path_to_faiss_id
    THEN [store |-> s, ret |-> FALSE]
    ELSE [store |-> [s EXCEPT !.path_to_faiss_id = MapDel(@, path_str)],
          ret |-> TRUE]

\* remove_by_path: [store, ret]
RemoveByPath(s, path_str) ==
    IF path_str \notin DOMAIN s.path_to_faiss_id
    THEN [store |-> s, ret |-> FALSE]
    ELSE LET faiss_id == s.path_to_faiss_id[path_str]
             removed == [s EXCEPT !.index = RemoveIds(@, faiss_id)]
         IN IF faiss_id \in DOMAIN s.meta_data
            THEN [store |-> DropMapping(removed, path_str, faiss_id), ret |-> TRUE]
            \* del self.meta_data[faiss_id] raises KeyError: the except branch
            ELSE [store |-> DropMapping(removed, path_str, faiss_id), ret |-> FALSE]

\* add without the removal of the entry the path already has
AddKeepOld(s, path_str, file_hash, vector) ==
    [s EXCEPT !.next_faiss_id = @ + 1,
              !.index = AddWithIds(@, F32(vector), s.next_faiss_id),
              !.meta_data = MapPut(@, s.next_faiss_id, [path |-> path_str, hash |-> file_hash]),
              !.path_to_faiss_id = MapPut(@, path_str, s.next_faiss_id)]

\* add: the store after it
AddReusingHandle(s, path_str, file_hash, vector) ==
    LET s1 == IF path_str \in DOMAIN s.path_to_faiss_id
              THEN RemoveByPath(s, path_str).store ELSE s
        faiss_id == s1.next_faiss_id
    IN [s1 EXCEPT !.index = AddWithIds(@, F32(vector), faiss_id),
                  !.meta_data = MapPut(@, faiss_id, [path |-> path_str, hash |-> file_hash]),
                  !.path_to_faiss_id = MapPut(@, path_str, faiss_id)]

Add(s, path_str, file_hash, vector) ==
    LET s1 == IF path_str \in DOMAIN s.path_to_faiss_id
              THEN RemoveByPath(s, path_str).store ELSE s
        faiss_id == s1.next_faiss_id
    IN [s1 EXCEPT !.next_faiss_id = @ + 1,
                  !.index = AddWithIds(@, F32(vector), faiss_id),
                  !.meta_data = MapPut(@, faiss_id, [path |-> path_str, hash |-> file_hash]),
                  !.path_to_faiss_id = MapPut(@, path_str, faiss_id)]

\* get_meta_by_path: <<meta>> or None
GetMetaByPath(s, path_str) ==
    IF path_str \in DOMAIN s.path_to_faiss_id
    THEN MapGet(s.meta_data, s.path_to_faiss_id[path_str])
    ELSE None

\* get_all_meta_for_rebuild: path -> meta
GetAllMetaForRebuild(s) ==
    LET known == {p \in DOMAIN s.path_to_faiss_id :
                     s.path_to_faiss_id[p] \in DOMAIN s.meta_data}
    IN [p \in known |-> s.meta_data[s.path_to_faiss_id[p]]]

\* get_vector_by_path: [store, ret], ret the vector or None
GetVectorByPath(s, path_str) ==
    IF path_str \notin DOMAIN s.path_to_faiss_id \/ Ntotal(s.index) = 0
    THEN [store |-> s, ret |-> None]
    ELSE LET faiss_id == s.path_to_faiss_id[path_str]
         IN IF faiss_id >= Ntotal(s.index)
            THEN [store |-> DropMapping(s, path_str, faiss_id), ret |-> None]
            ELSE [store |-> s, ret |-> FlatReconstruct(s.index, faiss_id)]

\* search: the set of result lists FAISS may return (ties between equal
\* distances may come in either order); rows without metadata are skipped
Rankings(index, q, k) ==
    LET n == Ntotal(index)
        m == IF k < n THEN k ELSE n
        d(pos) == L2(q, index[pos].vec)
    IN {r \in [1..m -> 1..n] :
          /\ \A i, j \in 1..m : i < j => r[i] # r[j] /\ d(r[i]) <= d(r[j])
          /\ \A pos \in (1..n) \ Range(r) : \A i \in 1..m : d(r[i]) <= d(pos)}

SearchRows(s, q, r) ==
    LET hits == [i \in 1..Len(r) |-> s.index[r[i]]]
        kept == SelectSeq(hits, LAMBDA row : row.id \in DOMAIN s.meta_data)
    IN [i \in 1..Len(kept) |->
          [path |-> s.meta_data[kept[i].id].path,
           hash |-> s.meta_data[kept[i].id].hash,
           score |-> L2(q, kept[i].vec)]]

Search(s, q, top_k) ==
    IF Ntotal(s.index) = 0 THEN {<<>>}
    ELSE {SearchRows(s, F32(q), r) : r \in Rankings(s.index, F32(q), top_k)}

\* flush: the content of the cache directory after it
Flush(s) ==
    [idx |-> <<[d |-> s.dim, rows |-> s.index]>>,
     pkl |-> <<[meta_data |-> s.meta_data,
                path_to_faiss_id |-> s.path_to_faiss_id,
                next_faiss_id |-> s.next_faiss_id]>>]

\* a file whose writer was stopped: it exists, but reading it back raises
Torn == <<[torn |-> TRUE]>>

\* _load, on a freshly initialised object of dimension dim; read_index or
\* pickle.load raising is the except branch
Load(dim, d) ==
    LET fresh == [EmptyStore EXCEPT !.dim = dim]
    IN IF d.idx # None /\ d.pkl # None
       THEN IF d.idx = Torn \/ d.idx[1].d # dim
            THEN fresh
            ELSE IF d.pkl = Torn
            THEN fresh
            ELSE [dim |-> dim, index |-> d.idx[1].rows,
                  meta_data |-> d.pkl[1].meta_data,
                  path_to_faiss_id |-> d.pkl[1].path_to_faiss_id,
                  next_faiss_id |-> d.pkl[1].next_faiss_id]
       ELSE fresh

\* VectorDB(dim): __init__ loads the cache directory, then cleans up
NewVectorDB(dim, d) == ValidateAndCleanupStaleMappings(Load(dim, d))

\* what a store answers for: path -> [hash, vec] (vec None if it has no row)
RowOf(s, h) ==
    LET at == {i \in 1..Len(s.index) : s.index[i].id = h}
    IN IF at = {} THEN None ELSE s.index[CHOOSE i \in at : TRUE].vec

View(s) ==
    [p \in DOMAIN GetAllMetaForRebuild(s) |->
        [hash |-> GetAllMetaForRebuild(s)[p].hash,
         vec |-> RowOf(s, s.path_to_faiss_id[p])]]

----------------------------------------------------------------------------
(* The state of a daemon that was started on an empty project with an     *)
(* empty cache directory: build_index has flushed the empty store.         *)

NoEvent == [at |-> "idle"]

Init ==
    /\ fs = EmptyMap
    /\ vdb = EmptyStore
    /\ disk = Flush(EmptyStore)
    /\ dgraph = {}
    /\ running = TRUE
    /\ queue = <<>>
    /\ pc = NoEvent
    /\ shadow = [mem |-> EmptyMap, disk |-> EmptyMap]
    /\ last = [op |-> "init"]

----------------------------------------------------------------------------
(* The VectorDB used on its own: one action per public method.            *)

indexerVars == <<fs, dgraph, running, queue, pc>>

StoreAdd(p, h, v) ==
    /\ vdb.next_faiss_id < MaxHandle
    /\ vdb' = Add(vdb, p, h, v)
    /\ shadow' = [shadow EXCEPT !.mem = MapPut(@, p, [hash |-> h, vec |-> v])]
    /\ last' = [op |-> "add", path |-> p]
    /\ UNCHANGED <<disk, indexerVars>>

StoreRemoveByPath(p) ==
    /\ vdb' = RemoveByPath(vdb, p).store
    /\ shadow' = [shadow EXCEPT !.mem = MapDel(@, p)]
    /\ last' = [op |-> "remove_by_path", path |-> p,
                present |-> p \in DOMAIN vdb.path_to_faiss_id,
                ret |-> RemoveByPath(vdb, p).ret]
    /\ UNCHANGED <<disk, indexerVars>>

StoreGetMeta(p) ==
    /\ last' = [op |-> "get_meta", path |-> p, ret |-> GetMetaByPath(vdb, p)]
    /\ UNCHANGED <<vdb, disk, shadow, indexerVars>>

StoreGetVector(p) ==
    /\ vdb' = GetVectorByPath(vdb, p).store
    /\ last' = [op |-> "get_vector", path |-> p,
                present |-> p \in DOMAIN vdb.path_to_faiss_id,
                ret |-> GetVectorByPath(vdb, p).ret,
                changed |-> vdb' # vdb]
    /\ UNCHANGED <<disk, shadow, indexerVars>>

StoreSearch(q, k) ==
    /\ \E res \in Search(vdb, q, k) :
          last' = [op |-> "search", k |-> k, ret |-> res]
    /\ UNCHANGED <<vdb, disk, shadow, indexerVars>>

StoreFlush ==
    /\ disk' = Flush(vdb)
    /\ shadow' = [shadow EXCEPT !.disk = shadow.mem]
    /\ last' = [op |-> "flush"]
    /\ UNCHANGED <<vdb, indexerVars>>

\* a new VectorDB object over the same cache directory replaces the old one
StoreLoad ==
    /\ vdb' = NewVectorDB(DefaultDim, disk)
    /\ shadow' = [shadow EXCEPT !.mem = shadow.disk]
    /\ last' = [op |-> "load", flushed |-> disk = Flush(vdb), same |-> vdb' = vdb]
    /\ UNCHANGED <<disk, indexerVars>>

StoreNext ==
    \/ \E p \in Paths, e \in StoreEntries : StoreAdd(p, e.hash, e.vec)
    \/ \E p \in Paths : StoreRemoveByPath(p)
    \/ \E p \in Paths : StoreGetMeta(p)
    \/ \E p \in Paths : StoreGetVector(p)
    \/ \E q \in Vecs, k \in 1..MaxTopK : StoreSearch(q, k)
    \/ StoreFlush
    \/ StoreLoad

StoreSpec == Init /\ [][StoreNext]_vars

\* remove_by_path when index.remove_ids raises: the row stays in the index
\* and the except branch drops the id from both maps and falls through to
\* the final return False
RemoveByPathRaising(s, path_str) ==
    IF path_str \notin DOMAIN s.path_to_faiss_id
    THEN [store |-> s, ret |-> FALSE]
    ELSE [store |-> DropMapping(s, path_str, s.path_to_faiss_id[path_str]),
          ret |-> FALSE]

RemoveCall(p, raises) ==
    /\ \E call \in {IF raises THEN RemoveByPathRaising(vdb, p) ELSE RemoveByPath(vdb, p)} :
          /\ vdb' = call.store
          /\ last' = [op |-> "remove_by_path", path |-> p, raised |-> raises,
                      present |-> p \in DOMAIN vdb.path_to_faiss_id,
                      handle |-> MapGet(vdb.path_to_faiss_id, p),
                      ret |-> call.ret]
    /\ shadow' = [shadow EXCEPT !.mem = MapDel(@, p)]
    /\ UNCHANGED <<disk, indexerVars>>

RemoveNext ==
    \/ \E p \in Paths, e \in StoreEntries : StoreAdd(p, e.hash, e.vec)
    \/ \E p \in Paths, raises \in BOOLEAN : RemoveCall(p, raises)
    \/ \E p \in Paths : StoreGetMeta(p)

RemoveSpec == Init /\ [][RemoveNext]_vars

(* Handle allocation across add, remove_by_path, flush and load.  The ghost
   shadow holds the handles that add has returned so far (allocated), those
   of them that the current object allocated or loaded (known), and the
   known ones at the last flush (saved). *)
HandleInit ==
    /\ fs = EmptyMap
    /\ vdb = EmptyStore
    /\ disk = Flush(EmptyStore)
    /\ dgraph = {}
    /\ running = TRUE
    /\ queue = <<>>
    /\ pc = NoEvent
    /\ shadow = [allocated |-> {}, known |-> {}, saved |-> {}]
    /\ last = [op |-> "init"]

HandleAdd(p, h, v) ==
    /\ vdb.next_faiss_id < MaxHandle
    /\ vdb' = Add(vdb, p, h, v)
    /\ \E faiss_id \in {vdb'.path_to_faiss_id[p]} :
          /\ shadow' = [shadow EXCEPT !.allocated = @ \cup {faiss_id},
                                       !.known = @ \cup {faiss_id}]
          /\ last' = [op |-> "add", handle |-> faiss_id,
                      before |-> shadow.allocated, known |-> shadow.known]
    /\ UNCHANGED <<disk, indexerVars>>

HandleRemove(p) ==
    /\ vdb' = RemoveByPath(vdb, p).store
    /\ last' = [op |-> "remove_by_path"]
    /\ UNCHANGED <<disk, shadow, indexerVars>>

HandleFlush ==
    /\ disk' = Flush(vdb)
    /\ shadow' = [shadow EXCEPT !.saved = shadow.known]
    /\ last' = [op |-> "flush"]
    /\ UNCHANGED <<vdb, indexerVars>>

\* a new VectorDB object over the same cache directory replaces the old one
HandleLoad ==
    /\ vdb' = NewVectorDB(DefaultDim, disk)
    /\ shadow' = [shadow EXCEPT !.known = shadow.saved]
    /\ last' = [op |-> "load"]
    /\ UNCHANGED <<disk, indexerVars>>

HandleNext ==
    \/ \E p \in Paths, e \in StoreEntries : HandleAdd(p, e.hash, e.vec)
    \/ \E p \in Paths : HandleRemove(p)
    \/ HandleFlush
    \/ HandleLoad

HandleSpec == HandleInit /\ [][HandleNext]_vars

----------------------------------------------------------------------------
(* Indexer: file discovery and build_index                                 *)

\* _is_relevant_path: under the root, a regular file, not ignored
UnderRoot(p) == p # OutsidePath

\* what git reports as ignored
GitIgnored(files) == IF GitIgnoreFile \in DOMAIN files THEN {GeneratedPath} ELSE {}

\* _is_relevant_path without its ignore checks
IsRelevantPathAnyFile(files, p) == p \in DOMAIN files

\* _is_relevant_path: under the root, a file, and not ignored. The project
\* directory `files` holds the files under the root.
IsRelevantPath(files, p) ==
    UnderRoot(p) /\ p \in DOMAIN files /\ p \notin GitIgnored(files)

\* the project_files list of build_index, in discovery order
ProjectFiles(files) == SelectSeq(PathOrder, LAMBDA p : IsRelevantPath(files, p))

Discovered(files) == Range(ProjectFiles(files))

\* One iteration of the for loop of build_index. st carries self.vdb (live),
\* temp_new_vdb (temp), the paths the embedding client was called for and
\* whether an embedding call has raised. failAt is the path whose
\* embedding call raises, if it is made; badRead the path whose read_text
\* raises (the file is skipped).
BuildStep(st, snapshot, files, path_str, failAt, badRead) ==
    LET current_hash == Sha256(files[path_str])
        text == TextForEmbedding(files[path_str])
        unchanged == path_str \in DOMAIN snapshot /\ snapshot[path_str].hash = current_hash
        got == GetVectorByPath(st.live, path_str)
        live1 == IF unchanged THEN got.store ELSE st.live
        reuse == unchanged /\ got.ret # None
    IN IF path_str = badRead
       THEN [st EXCEPT !.unread = @ \cup {path_str}]
       ELSE IF reuse
       THEN [st EXCEPT !.live = live1,
                       !.temp = Add(@, path_str, current_hash, got.ret)]
       ELSE IF path_str = failAt
            THEN [st EXCEPT !.live = live1, !.embedded = @ \cup {path_str},
                            !.raised = TRUE, !.failedAt = path_str]
            ELSE [st EXCEPT !.live = live1, !.embedded = @ \cup {path_str},
                            !.temp = Add(@, path_str, current_hash, EmbedVec(text))]

RECURSIVE BuildLoop(_, _, _, _, _, _)
BuildLoop(st, snapshot, files, todo, failAt, badRead) ==
    IF todo = <<>> \/ st.raised THEN st
    ELSE BuildLoop(BuildStep(st, snapshot, files, Head(todo), failAt, badRead),
                   snapshot, files, Tail(todo), failAt, badRead)

\* build_index up to the end of the loop, started on the live store `live`
\* with the cache directory d
BuildRun(live, d, files, failAt, badRead) ==
    BuildLoop([live |-> live, temp |-> NewVectorDB(live.dim, d),
               embedded |-> {}, unread |-> {}, raised |-> FALSE,
               failedAt |-> "none"],
              GetAllMetaForRebuild(live), files, ProjectFiles(files), failAt,
              badRead)

\* ghost: the discovered files that are new or whose hash differs from the snapshot
NewOrChanged(live, files, unread) ==
    {p \in (DOMAIN files) \ unread :
        /\ IsRelevantPath(files, p)
        /\ \/ p \notin DOMAIN GetAllMetaForRebuild(live)
           \/ GetAllMetaForRebuild(live)[p].hash # Sha256(files[p])}

\* ghost: the last operation was a build that ran to its end and read every file
AfterCleanBuild == last.op = "build" /\ last.ok /\ last.unread = {}

\* ghost: what a build_index call did; old is self.vdb before the call and
\* live the store the call started from
BuildRecord(run, old, live) ==
    IF run.raised
    THEN [op |-> "build", ok |-> FALSE, failedAt |-> run.failedAt,
          unread |-> run.unread]
    ELSE [op |-> "build", ok |-> TRUE, failedAt |-> run.failedAt,
          unread |-> run.unread, embedded |-> run.embedded,
          newOrChanged |-> NewOrChanged(live, fs, run.unread),
          afterBuild |-> AfterCleanBuild,
          sameView |-> View(run.temp) = View(old)]

\* build_index called on the running Indexer
BuildIndex(failAt, badRead) ==
    /\ running /\ pc.at = "idle"
    /\ {failAt, badRead} \subseteq Discovered(fs) \cup {"none"}
    /\ \E run \in {BuildRun(vdb, disk, fs, failAt, badRead)} :
          /\ run.temp.next_faiss_id <= MaxHandle
          /\ IF run.raised
             THEN \* the exception of the embedding call leaves build_index
                  /\ vdb' = run.live
                  /\ UNCHANGED <<disk, dgraph>>
             ELSE /\ vdb' = run.temp
                  /\ disk' = Flush(run.temp)
                  /\ dgraph' = Discovered(fs)
          /\ last' = BuildRecord(run, vdb, vdb)
    /\ UNCHANGED <<fs, running, queue, pc, shadow>>

\* a new daemon process: Indexer.__init__ makes VectorDB() and calls build_index
Restart(failAt, badRead) ==
    /\ {failAt, badRead} \subseteq Discovered(fs) \cup {"none"}
    /\ \E fresh \in {NewVectorDB(DefaultDim, disk)} :
       \E run \in {BuildRun(fresh, disk, fs, failAt, badRead)} :
          /\ run.temp.next_faiss_id <= MaxHandle
          /\ IF run.raised
             THEN \* the constructor raises: no Indexer, no daemon
                  /\ running' = FALSE
                  /\ vdb' = EmptyStore
                  /\ dgraph' = {}
                  /\ UNCHANGED disk
             ELSE /\ running' = TRUE
                  /\ vdb' = run.temp
                  /\ disk' = Flush(run.temp)
                  /\ dgraph' = Discovered(fs)
          /\ last' = BuildRecord(run, vdb, fresh)
    \* the old process is gone, and its observer and watcher thread with it
    /\ queue' = <<>>
    /\ pc' = NoEvent
    /\ UNCHANGED <<fs, shadow>>

----------------------------------------------------------------------------
(* Indexer.process_file_event                                              *)

\* the "deleted" branch: [store, d] after it
EventDeleted(s, d, path_str) ==
    LET r == RemoveByPath(s, path_str)
    IN IF ~UnderRoot(path_str)
       THEN [store |-> s, d |-> d]
       ELSE [store |-> r.store, d |-> IF r.ret THEN Flush(r.store) ELSE d]

\* the "created"/"modified" branch without its content-unchanged return
EventUpsertAlways(s, files, path_str, readOk) ==
    IF ~(path_str \in DOMAIN files) \/ ~readOk
    THEN [store |-> s, proceeds |-> FALSE]
    ELSE [store |-> RemoveByPath(s, path_str).store, proceeds |-> TRUE]

\* the "created"/"modified" branch up to the embedding call:
\* proceeds is FALSE when the branch returns before it
EventUpsert(s, files, path_str, readOk) ==
    IF ~IsRelevantPath(files, path_str) \/ ~readOk
    THEN [store |-> s, proceeds |-> FALSE]
    ELSE LET current_hash == Sha256(files[path_str])
             existing_meta == GetMetaByPath(s, path_str)
         IN IF existing_meta # None /\ existing_meta[1].hash = current_hash
            THEN [store |-> s, proceeds |-> FALSE]
            ELSE [store |-> RemoveByPath(s, path_str).store, proceeds |-> TRUE]

\* the try block around the embedding call: add and flush, or the except branch
EventEmbed(s, d, path_str, content, ok) ==
    IF ok
    THEN LET added == Add(s, path_str, Sha256(content), EmbedVec(TextForEmbedding(content)))
         IN [store |-> added, d |-> Flush(added)]
    ELSE [store |-> s, d |-> d]

\* process_file_event up to the embedding call, on the current state. A
\* moved event is the deleted branch for src, then the created branch for dst.
EventHead(kind, src, dst, readOk) ==
    LET target == IF kind = "moved" THEN dst ELSE src
        del == IF kind \in {"deleted", "moved"}
               THEN EventDeleted(vdb, disk, src)
               ELSE [store |-> vdb, d |-> disk]
        up == IF kind = "deleted"
              THEN [store |-> del.store, proceeds |-> FALSE]
              ELSE EventUpsert(del.store, fs, target, readOk)
    IN [target |-> target, store |-> up.store, d |-> del.d, proceeds |-> up.proceeds]

\* ghost: the entry a store holds for a path, <<[hash, vec]>> or None
EntryOf(s, p) == MapGet(View(s), p)

\* ghost: the event directly follows a build and a move src -> dst on disk
MoveScenario(kind, src, dst) ==
    /\ kind = "moved" /\ last.op = "fs_move"
    /\ last.src = src /\ last.dst = dst /\ last.afterBuild

\* ghost: what a finished process_file_event did. called: the embedding
\* call was made; fault: the call that raised; prev and srcPrev: the
\* entries of path and of src before the event; s: the store after it.
\* A call that made no embedding call, and is not the move that follows a
\* build, leaves the bare record.
EventRecord(kind, src, path, called, fault, prev, srcPrev, scenario, s) ==
    IF scenario
    THEN [op |-> "event", kind |-> kind, src |-> src, path |-> path,
          fault |-> fault, scenario |-> TRUE,
          hashOfSrc |-> /\ srcPrev # None /\ EntryOf(s, path) # None
                        /\ EntryOf(s, path)[1].hash = srcPrev[1].hash]
    ELSE IF called
    THEN [op |-> "event", kind |-> kind, path |-> path,
          embFailed |-> fault = "embed", scenario |-> FALSE,
          hadPrev |-> prev # None,
          keptPrev |-> EntryOf(s, path) = prev]
    ELSE [op |-> "event_quiet"]

\* a file event as the observer queues it: dst is the dest_path of a moved
\* event (the other events carry none: dst = src)
FileEvent(kind, src, dst) == [kind |-> kind, src |-> src, dst |-> dst]

\* at most one I/O fault per event: read_text or the embedding call raises
EventFaults == {"none", "read", "embed"}

\* the watcher thread dispatches the next event: process_file_event as one call
ProcessFileEvent(fault) ==
    /\ running /\ pc.at = "idle"
    /\ queue # <<>>
    /\ queue' = Tail(queue)
    /\ LET kind == Head(queue).kind
           src == Head(queue).src
           dst == Head(queue).dst
           head == EventHead(kind, src, dst, fault # "read")
           fin == IF head.proceeds
                  THEN EventEmbed(head.store, head.d, head.target, fs[head.target],
                                  fault # "embed")
                  ELSE [store |-> head.store, d |-> head.d]
       IN \* a fault is an input only where its call is made
          /\ fault = "read" => kind # "deleted" /\ IsRelevantPath(fs, head.target)
          /\ fault = "embed" => head.proceeds
          /\ fin.store.next_faiss_id <= MaxHandle
          /\ vdb' = fin.store
          /\ disk' = fin.d
          /\ last' = EventRecord(kind, src, head.target, head.proceeds, fault,
                                 EntryOf(vdb, head.target), EntryOf(vdb, src),
                                 MoveScenario(kind, src, dst), fin.store)
    /\ UNCHANGED <<fs, dgraph, running, pc, shadow>>

\* Indexer.query. If the embedding call raises (~ok) the call returns
\* nothing and has changed nothing.
Query(text, top_k, ok) ==
    /\ running
    /\ IF ok
       THEN \E res \in Search(vdb, EmbedVec(text), top_k) :
               last' = [op |-> "query", ret |-> res,
                        full |-> top_k >= Ntotal(vdb.index)]
       ELSE UNCHANGED last
    /\ UNCHANGED <<fs, vdb, disk, dgraph, running, queue, pc, shadow>>

----------------------------------------------------------------------------
(* The project directory changes under the daemon (or while it is down).   *)
(* While a daemon runs, its observer queues a file event for every change. *)

Observed(ev) ==
    /\ running => Len(queue) < MaxQueue
    /\ queue' = IF running THEN Append(queue, ev) ELSE queue

FsWrite(p, c) ==
    /\ MapGet(fs, p) # <<c>>
    /\ fs' = MapPut(fs, p, c)
    /\ Observed(FileEvent(IF p \in DOMAIN fs THEN "modified" ELSE "created", p, p))
    /\ last' = [op |-> "fs"]
    /\ UNCHANGED <<vdb, disk, dgraph, running, pc, shadow>>

FsDelete(p) ==
    /\ p \in DOMAIN fs
    /\ fs' = MapDel(fs, p)
    /\ Observed(FileEvent("deleted", p, p))
    /\ last' = [op |-> "fs"]
    /\ UNCHANGED <<vdb, disk, dgraph, running, pc, shadow>>

FsMove(p, q) ==
    /\ p \in DOMAIN fs /\ q \notin DOMAIN fs
    /\ fs' = MapPut(MapDel(fs, p), q, fs[p])
    /\ Observed(FileEvent("moved", p, q))
    /\ last' = [op |-> "fs_move", src |-> p, dst |-> q,
                afterBuild |-> AfterCleanBuild]
    /\ UNCHANGED <<vdb, disk, dgraph, running, pc, shadow>>

\* at most one I/O fault per build: an embedding call or a read that raises
Faults ==
    {[embed |-> "none", read |-> "none"]}
        \cup {[embed |-> p, read |-> "none"] : p \in Paths}
        \cup {[embed |-> "none", read |-> p] : p \in Paths}

\* The Indexer called from one thread: every call runs to its end.
Next ==
    \/ \E p \in Paths, c \in Contents : FsWrite(p, c)
    \/ \E p \in Paths : FsDelete(p)
    \/ \E p, q \in Paths : FsMove(p, q)
    \/ \E f \in Faults : BuildIndex(f.embed, f.read)
    \/ \E fault \in EventFaults : ProcessFileEvent(fault)

Spec == Init /\ [][Next]_vars

----------------------------------------------------------------------------
(* The daemon as server.py runs it: the Indexer is built once, the watcher *)
(* thread calls process_file_event, the server's threads query. The        *)
(* embedding call is remote I/O: the watcher thread waits in it            *)
(* (pc.at = "embedding") while the other threads run. Nothing locks.       *)

\* the watcher thread enters process_file_event and runs to the embedding
\* call, or to the end of the call if it makes none
EventBegin(readOk) ==
    /\ running /\ pc.at = "idle"
    /\ queue # <<>>
    /\ queue' = Tail(queue)
    /\ LET kind == Head(queue).kind
           src == Head(queue).src
           dst == Head(queue).dst
           head == EventHead(kind, src, dst, readOk)
       IN /\ ~readOk => kind # "deleted" /\ IsRelevantPath(fs, head.target)
          /\ head.proceeds => head.store.next_faiss_id < MaxHandle
          /\ vdb' = head.store
          /\ disk' = head.d
          /\ IF head.proceeds
             THEN /\ pc' = [at |-> "embedding", kind |-> kind, src |-> src,
                            path |-> head.target, content |-> fs[head.target],
                            prev |-> EntryOf(vdb, head.target),
                            srcPrev |-> EntryOf(vdb, src),
                            scenario |-> MoveScenario(kind, src, dst)]
                  /\ last' = [op |-> "event_begin"]
             ELSE /\ pc' = NoEvent
                  /\ last' = EventRecord(kind, src, head.target, FALSE,
                                         IF readOk THEN "none" ELSE "read",
                                         EntryOf(vdb, head.target), EntryOf(vdb, src),
                                         MoveScenario(kind, src, dst), head.store)
    /\ UNCHANGED <<fs, dgraph, running, shadow>>

\* the embedding call returns (ok) or raises (~ok), and the call ends
EventEmbedReturn(ok) ==
    /\ running /\ pc.at = "embedding"
    /\ LET fin == EventEmbed(vdb, disk, pc.path, pc.content, ok)
       IN /\ vdb' = fin.store
          /\ disk' = fin.d
          /\ last' = EventRecord(pc.kind, pc.src, pc.path, TRUE,
                                 IF ok THEN "none" ELSE "embed", pc.prev, pc.srcPrev,
                                 pc.scenario, fin.store)
    /\ pc' = NoEvent
    /\ UNCHANGED <<fs, dgraph, running, queue, shadow>>

DaemonNext ==
    \/ \E p \in Paths, c \in Contents : FsWrite(p, c)
    \/ \E p \in Paths : FsDelete(p)
    \/ \E p, q \in Paths : FsMove(p, q)
    \/ \E f \in Faults : Restart(f.embed, f.read)
    \/ \E readOk \in BOOLEAN : EventBegin(readOk)
    \/ \E ok \in BOOLEAN : EventEmbedReturn(ok)
    \/ \E t \in QueryTexts, k \in 1..MaxTopK, ok \in BOOLEAN : Query(t, k, ok)

DaemonSpec == Init /\ [][DaemonNext]_vars

----------------------------------------------------------------------------
(* At-least-once delivery: the observer may hand the watcher thread the    *)
(* event it has just handled once more, before anything else happens.      *)

\* process_file_event as one call on the current state: the store and the
\* cache directory it leaves, and whether it made the embedding call
EventCall(ev, fault) ==
    LET head == EventHead(ev.kind, ev.src, ev.dst, fault # "read")
        fin == IF head.proceeds
               THEN EventEmbed(head.store, head.d, head.target, fs[head.target],
                               fault # "embed")
               ELSE [store |-> head.store, d |-> head.d]
    IN [store |-> fin.store, d |-> fin.d, called |-> head.proceeds,
        target |-> head.target]

\* a fault is an input only where its call is made
FaultReached(ev, fault, call) ==
    /\ fault = "read" => ev.kind # "deleted" /\ IsRelevantPath(fs, call.target)
    /\ fault = "embed" => call.called

\* the watcher thread dispatches the next event of the queue
Deliver(fault) ==
    /\ running /\ pc.at = "idle"
    /\ queue # <<>>
    /\ queue' = Tail(queue)
    /\ \E call \in {EventCall(Head(queue), fault)} :
          /\ FaultReached(Head(queue), fault, call)
          /\ call.store.next_faiss_id <= MaxHandle
          /\ vdb' = call.store
          /\ disk' = call.d
          /\ last' = [op |-> "delivered", ev |-> Head(queue),
                      clean |-> fault = "none", called |-> call.called]
    /\ UNCHANGED <<fs, dgraph, running, pc, shadow>>

\* the event handled last is delivered a second time
Redeliver(fault) ==
    /\ running /\ pc.at = "idle"
    /\ last.op \in {"delivered", "redelivered"}
    /\ \E call \in {EventCall(last.ev, fault)} :
          /\ FaultReached(last.ev, fault, call)
          /\ call.store.next_faiss_id <= MaxHandle
          /\ vdb' = call.store
          /\ disk' = call.d
          /\ last' = [op |-> "redelivered", ev |-> last.ev,
                      clean |-> fault = "none", called |-> call.called,
                      afterClean |-> last.clean, firstCalled |-> last.called,
                      same |-> call.store = vdb /\ call.d = disk]
    /\ UNCHANGED <<fs, dgraph, running, queue, pc, shadow>>

DeliveryNext ==
    \/ \E p \in Paths, c \in Contents : FsWrite(p, c)
    \/ \E p \in Paths : FsDelete(p)
    \/ \E p, q \in Paths : FsMove(p, q)
    \/ BuildIndex("none", "none")
    \/ \E fault \in EventFaults : Deliver(fault)
    \/ \E fault \in EventFaults : Redeliver(fault)

DeliverySpec == Init /\ [][DeliveryNext]_vars

----------------------------------------------------------------------------
(* flush that raises or is cut short. flush calls faiss.write_index on     *)
(* faiss.idx first, then opens meta_plus.pkl with "wb" and pickles into it.*)

\* where flush stops: in write_index before or after faiss.idx was opened
\* for writing, in open() of meta_plus.pkl, or in pickle.dump
FlushStops == {"write_index", "write_index_torn", "open", "dump"}

\* the cache directory a flush of s over the directory d leaves behind
\* when it stops at `stop`
FlushStopped(s, d, stop) ==
    CASE stop = "write_index" -> d
      [] stop = "write_index_torn" -> [d EXCEPT !.idx = Torn]
      [] stop = "open" -> [d EXCEPT !.idx = Flush(s).idx]
      [] stop = "dump" -> [idx |-> Flush(s).idx, pkl |-> Torn]

\* ghost: a flush of s over the directory d stopped and left `left`.
\* reached: the caller of the operation saw the exception; whole: the
\* directory is the one before the flush or the one the flush was writing;
\* mixed: faiss.idx is the new file and meta_plus.pkl still the old one
FlushRecord(within, how, s, d, left, reached) ==
    [op |-> "flush_stopped", within |-> within, how |-> how,
     reached |-> reached, whole |-> left \in {d, Flush(s)},
     mixed |-> /\ left.idx = Flush(s).idx /\ left.idx # d.idx
               /\ left.pkl = d.pkl /\ left.pkl # Flush(s).pkl]

\* the stores a run may build: handles and index rows are capped
Bounded(s) == s.next_faiss_id <= MaxHandle /\ Ntotal(s.index) <= MaxHandle

\* the process is gone: nothing of it is left but the cache directory
ProcessStops ==
    /\ running' = FALSE
    /\ vdb' = EmptyStore
    /\ dgraph' = {}
    /\ queue' = <<>>

\* how a flush ends: it returns ("none"), raises at `stop`, or the process
\* is killed at `stop`
FlushEnds ==
    {[stop |-> "none", how |-> "returned"]}
        \cup {[stop |-> st, how |-> h] : st \in FlushStops, h \in {"raised", "killed"}}

\* process_file_event for the next created, modified or deleted event,
\* with the flush it calls ending as `end`. In the created/modified branch
\* flush is called inside the try block of the embedding call, whose
\* except branch logs and returns. In the deleted branch it is called
\* outside any try block.
EventFlush(end) ==
    /\ running /\ pc.at = "idle"
    /\ queue # <<>>
    /\ Head(queue).kind # "moved"
    /\ LET kind == Head(queue).kind
           path == Head(queue).src
           up == EventUpsert(vdb, fs, path, TRUE)
           del == RemoveByPath(vdb, path)
           flushes == IF kind = "deleted" THEN del.ret ELSE up.proceeds
           s == IF kind = "deleted" THEN del.store
                ELSE IF up.proceeds
                THEN Add(up.store, path, Sha256(fs[path]),
                         EmbedVec(TextForEmbedding(fs[path])))
                ELSE up.store
       IN /\ end.stop # "none" => flushes
          /\ Bounded(s)
          /\ disk' = IF ~flushes THEN disk
                     ELSE IF end.stop = "none" THEN Flush(s)
                     ELSE FlushStopped(s, disk, end.stop)
          /\ last' = IF end.stop = "none" THEN [op |-> "event_done"]
                     ELSE FlushRecord(kind, end.how, s, disk, disk', kind = "deleted")
          /\ IF end.how = "killed"
             THEN ProcessStops
             ELSE /\ vdb' = s
                  /\ queue' = Tail(queue)
                  /\ UNCHANGED <<dgraph, running>>
    /\ UNCHANGED <<fs, pc, shadow>>

\* build_index, called on the running Indexer or by Indexer.__init__ of a
\* starting daemon, with the flush at its end ending as `end`: when it
\* stops, self.vdb has been replaced and dgraph.build is not reached
BuildFlush(end) ==
    /\ pc.at = "idle"
    /\ \E live \in {IF running THEN vdb ELSE NewVectorDB(DefaultDim, disk)} :
       \E run \in {BuildRun(live, disk, fs, "none", "none")} :
          /\ Bounded(run.temp)
          /\ disk' = IF end.stop = "none" THEN Flush(run.temp)
                     ELSE FlushStopped(run.temp, disk, end.stop)
          /\ last' = IF end.stop = "none" THEN [op |-> "build_done"]
                     ELSE FlushRecord("build", end.how, run.temp, disk, disk', TRUE)
          /\ IF end.how = "killed" \/ (~running /\ end.how = "raised")
             THEN ProcessStops
             ELSE /\ vdb' = run.temp
                  /\ running' = TRUE
                  /\ queue' = IF running THEN queue ELSE <<>>
                  /\ dgraph' = IF end.stop = "none" THEN Discovered(fs) ELSE dgraph
    /\ UNCHANGED <<fs, pc, shadow>>

\* one file is written, rewritten and deleted
FlushPaths == {"a.py"}

FlushNext ==
    \/ \E p \in FlushPaths, c \in Contents : FsWrite(p, c)
    \/ \E p \in FlushPaths : FsDelete(p)
    \/ \E end \in FlushEnds : EventFlush(end)
    \/ \E end \in FlushEnds : BuildFlush(end)

FlushSpec == Init /\ [][FlushNext]_vars

----------------------------------------------------------------------------
(* Convergence: the project changes while a daemon runs or is down, every  *)
(* event is handled at least once, every embedding call and read succeed.  *)

\* the daemon process is stopped
DaemonStops ==
    /\ running /\ pc.at = "idle"
    /\ ProcessStops
    /\ last' = [op |-> "stopped"]
    /\ UNCHANGED <<fs, disk, pc, shadow>>

\* ghost: path -> content hash, as the store holds it
StoreHashes(s) ==
    [p \in DOMAIN GetAllMetaForRebuild(s) |-> GetAllMetaForRebuild(s)[p].hash]

\* ghost: path -> content hash of the relevant files of the project
FileHashes(files) == [p \in Discovered(files) |-> Sha256(files[p])]

\* every event that was delivered has been handled
Drained == running /\ pc.at = "idle" /\ queue = <<>>

ConvergeNext ==
    \/ \E p \in Paths, c \in Contents : FsWrite(p, c)
    \/ \E p \in Paths : FsDelete(p)
    \/ \E p, q \in Paths : FsMove(p, q)
    \/ Deliver("none")
    \/ Redeliver("none")
    \/ DaemonStops
    \/ Restart("none", "none")

ConvergeSpec == Init /\ [][ConvergeNext]_vars

----------------------------------------------------------------------------
(* Events for paths that are not relevant: a path outside the project     *)
(* root, a directory, and a file that .gitignore excludes.                *)

\* ghost: the path is outside the root, a directory, or in an ignored tree
Irrelevant(files, p) ==
    ~UnderRoot(p) \/ p = DirPath \/ p \in GitIgnored(files)

\* the observer reports an event for a path that is not a project file
StrayObserved(kind, p) ==
    /\ running /\ Len(queue) < MaxQueue
    /\ queue' = Append(queue, FileEvent(kind, p, p))
    /\ last' = [op |-> "fs"]
    /\ UNCHANGED <<fs, vdb, disk, dgraph, running, pc, shadow>>

\* ghost: store `after` is store `before` without the entry of p
OnlyRemoved(before, after, p) ==
    View(after) = [q \in (DOMAIN View(before)) \ {p} |-> View(before)[q]]

\* the watcher thread dispatches the next created, modified or deleted
\* event; every read and embedding call succeeds
Dispatch ==
    /\ running /\ pc.at = "idle"
    /\ queue # <<>>
    /\ queue' = Tail(queue)
    /\ \E call \in {EventCall(Head(queue), "none")} :
          /\ call.store.next_faiss_id <= MaxHandle
          /\ vdb' = call.store
          /\ disk' = call.d
          /\ last' = [op |-> "dispatched", kind |-> Head(queue).kind,
                      irrelevant |-> Irrelevant(fs, Head(queue).src),
                      underRoot |-> UnderRoot(Head(queue).src),
                      called |-> call.called,
                      same |-> call.store = vdb /\ call.d = disk,
                      removed |-> /\ OnlyRemoved(vdb, call.store, Head(queue).src)
                                  /\ call.d = Flush(call.store)]
    /\ UNCHANGED <<fs, dgraph, running, pc, shadow>>

RelevancePaths == {GitIgnoreFile, GeneratedPath}

RelevanceNext ==
    \/ \E p \in RelevancePaths, c \in Contents : FsWrite(p, c)
    \/ \E p \in RelevancePaths : FsDelete(p)
    \/ \E kind \in {"created", "modified", "deleted"}, p \in {OutsidePath, DirPath} :
          StrayObserved(kind, p)
    \/ Dispatch
    \/ BuildIndex("none", "none")

RelevanceSpec == Init /\ [][RelevanceNext]_vars

----------------------------------------------------------------------------
(* The VectorDB driven by add, remove_by_path and get_meta_by_path only    *)

MetaNext ==
    \/ \E p \in Paths, e \in StoreEntries : StoreAdd(p, e.hash, e.vec)
    \/ \E p \in Paths : StoreRemoveByPath(p)
    \/ \E p \in Paths : StoreGetMeta(p)

MetaSpec == Init /\ [][MetaNext]_vars

----------------------------------------------------------------------------
(* DepGraph on its own. In this part dgraph is the whole DepGraph object   *)
(* (the other specifications keep its node set only) and fs maps a file to *)
(* the imports that tree-sitter finds in it. File identifiers are          *)
(* project-relative paths, modelled by the paths themselves.               *)

GraphPaths == {"a.py", "b.py"}

\* an import statement: the file it names, written relative ("./b") or
\* not ("a")
Imports == {[to |-> "a.py", rel |-> FALSE], [to |-> "b.py", rel |-> TRUE]}

\* the files written: no import, or one
GraphContents == {{}} \cup {{imp} : imp \in Imports}

EmptyGraph ==
    [nodes |-> {}, edges |-> {}, file_map |-> EmptyMap,
     import_cache |-> EmptyMap, rooted |-> FALSE]

\* networkx DiGraph.add_edge: missing end points become nodes
AddEdge(g, u, v) ==
    [g EXCEPT !.nodes = @ \cup {u, v}, !.edges = @ \cup {<<u, v>>}]

\* networkx DiGraph.remove_node: the edges at the node go with it
RemoveNode(g, u) ==
    [g EXCEPT !.nodes = @ \ {u},
              !.edges = {e \in @ : e[1] # u /\ e[2] # u}]

Successors(g, u) == {e[2] : e \in {d \in g.edges : d[1] = u}}

Predecessors(g, u) == {e[1] : e \in {d \in g.edges : d[2] = u}}

\* _parse_raw_imports: a missing file has no imports
ParseRawImports(files, path) == IF path \in DOMAIN files THEN files[path] ELSE {}

\* _resolve_import_path: [g, paths]; the result is cached per import and file
ResolveImportPath(g, files, imp, from_file) ==
    LET cache_key == <<imp, from_file>>
        relative == IF imp.rel /\ imp.to \in DOMAIN files /\ imp.to # from_file
                    THEN {imp.to} ELSE {}
        matched == {g.file_map[id] : id \in {i \in DOMAIN g.file_map :
                        g.file_map[i] # from_file /\ i = imp.to}}
        resolved == relative \cup matched
    IN IF cache_key \in DOMAIN g.import_cache
       THEN [g |-> g, paths |-> g.import_cache[cache_key]]
       ELSE [g |-> [g EXCEPT !.import_cache = MapPut(@, cache_key, resolved)],
             paths |-> resolved]

\* _resolve_local_imports: [g, paths]
RECURSIVE ResolveAll(_, _, _, _, _)
ResolveAll(g, files, todo, from_file, acc) ==
    IF todo = {} THEN [g |-> g, paths |-> acc]
    ELSE LET imp == CHOOSE i \in todo : TRUE
             r == ResolveImportPath(g, files, imp, from_file)
         IN ResolveAll(r.g, files, todo \ {imp}, from_file, acc \cup r.paths)

ResolveLocalImports(g, files, path) ==
    IF ~g.rooted THEN [g |-> g, paths |-> {}]
    ELSE ResolveAll(g, files, ParseRawImports(files, path), path, {})

\* the loop over the resolved dependencies: an edge for each that is in file_map
RECURSIVE AddEdges(_, _, _)
AddEdges(g, u, deps) ==
    IF deps = {} THEN g
    ELSE LET d == CHOOSE x \in deps : TRUE
         IN AddEdges(IF d \in DOMAIN g.file_map THEN AddEdge(g, u, d) ELSE g,
                     u, deps \ {d})

\* remove_file that keeps the file_map entry
RemoveFileNodeOnly(g, path) ==
    IF path \in g.nodes THEN RemoveNode(g, path) ELSE g

\* remove_file
RemoveFile(g, path) ==
    IF path \in g.nodes
    THEN [RemoveNode(g, path) EXCEPT !.file_map = MapDel(@, path)]
    ELSE g

\* add_or_update_file
AddOrUpdateFile(g, files, path) ==
    LET old_dependencies == IF path \in g.nodes THEN Successors(g, path) ELSE {}
        g1 == [g EXCEPT !.edges = @ \ {<<path, dep>> : dep \in old_dependencies},
                        !.nodes = @ \cup {path},
                        !.file_map = MapPut(@, path, path)]
        r == ResolveLocalImports(g1, files, path)
    IN AddEdges(r.g, path, r.paths)

\* move_file
MoveFile(g, files, old_path, new_path) ==
    IF old_path \notin g.nodes THEN AddOrUpdateFile(g, files, new_path)
    ELSE IF old_path # new_path
    THEN AddOrUpdateFile(RemoveFile(g, old_path), files, new_path)
    ELSE AddOrUpdateFile(g, files, new_path)

\* build: the second loop, over the files not yet processed
RECURSIVE BuildEdges(_, _, _)
BuildEdges(g, files, todo) ==
    IF todo = {} THEN g
    ELSE LET path == CHOOSE p \in todo : TRUE
             r == ResolveLocalImports(g, files, path)
         IN BuildEdges(AddEdges(r.g, path, r.paths), files, todo \ {path})

\* build(list): graph, file_map and import_cache are cleared, project_root
\* is inferred once
GraphBuildOf(g, files, list) ==
    BuildEdges([nodes |-> list, edges |-> {},
                file_map |-> [p \in list |-> p],
                import_cache |-> EmptyMap,
                rooted |-> g.rooted \/ list # {}],
               files, list)

\* ghost: the nodes that the imports of path resolve to when nothing is
\* memoised: the current files and the current file_map decide
FreshDependencies(g, files, path) ==
    {d \in ResolveLocalImports([g EXCEPT !.import_cache = EmptyMap], files, path).paths :
        d \in DOMAIN g.file_map}

GraphInit ==
    /\ fs = EmptyMap
    /\ vdb = EmptyStore
    /\ disk = Flush(EmptyStore)
    /\ dgraph = EmptyGraph
    /\ running = TRUE
    /\ queue = <<>>
    /\ pc = NoEvent
    /\ shadow = [mem |-> EmptyMap, disk |-> EmptyMap]
    /\ last = [op |-> "init"]

graphFrame == <<vdb, disk, running, queue, pc, shadow>>

GraphWrite(p, c) ==
    /\ MapGet(fs, p) # <<c>>
    /\ fs' = MapPut(fs, p, c)
    /\ last' = [op |-> "fs"]
    /\ UNCHANGED <<dgraph, graphFrame>>

GraphDelete(p) ==
    /\ p \in DOMAIN fs
    /\ fs' = MapDel(fs, p)
    /\ last' = [op |-> "fs"]
    /\ UNCHANGED <<dgraph, graphFrame>>

GraphBuild(list) ==
    /\ list \subseteq DOMAIN fs
    /\ dgraph' = GraphBuildOf(dgraph, fs, list)
    /\ last' = [op |-> "build"]
    /\ UNCHANGED <<fs, graphFrame>>

GraphAddOrUpdate(p) ==
    /\ dgraph' = AddOrUpdateFile(dgraph, fs, p)
    /\ last' = [op |-> "add_or_update_file", path |-> p]
    /\ UNCHANGED <<fs, graphFrame>>

GraphRemove(p) ==
    /\ dgraph' = RemoveFile(dgraph, p)
    /\ last' = [op |-> "remove_file", was |-> p \in dgraph.nodes]
    /\ UNCHANGED <<fs, graphFrame>>

GraphMove(p, q) ==
    /\ dgraph' = MoveFile(dgraph, fs, p, q)
    /\ last' = [op |-> "move_file"]
    /\ UNCHANGED <<fs, graphFrame>>

GraphNext ==
    \/ \E p \in GraphPaths, c \in GraphContents : GraphWrite(p, c)
    \/ \E p \in GraphPaths : GraphDelete(p)
    \/ \E list \in SUBSET GraphPaths : GraphBuild(list)
    \/ \E p \in GraphPaths : GraphAddOrUpdate(p)
    \/ \E p \in GraphPaths : GraphRemove(p)
    \/ \E p, q \in GraphPaths : GraphMove(p, q)

GraphSpec == GraphInit /\ [][GraphNext]_vars

(* Two threads inside add_or_update_file on one DepGraph.  DepGraph holds
   no lock, so the statements of the two calls interleave; a thread's
   position and locals are in pc, and shadow remembers the graph and the
   arguments at the moment the two calls were made. *)
Threads == {1, 2}

ThreadIdle == [at |-> "idle"]

AllIdle == \A t \in Threads : pc[t].at = "idle"

AllReturned == \A t \in Threads : pc[t].at \in {"returned", "raised"}

ThreadInit ==
    /\ fs = EmptyMap
    /\ vdb = EmptyStore
    /\ disk = Flush(EmptyStore)
    /\ dgraph = EmptyGraph
    /\ running = TRUE
    /\ queue = <<>>
    /\ pc = [t \in Threads |-> ThreadIdle]
    /\ shadow = [start |-> EmptyGraph, paths |-> <<>>]
    /\ last = [op |-> "init"]

threadFrame == <<vdb, disk, running, queue>>

\* the two threads enter add_or_update_file
ThreadsCall(p1, p2) ==
    /\ AllIdle
    /\ pc' = [t \in Threads |-> [at |-> "old_edges", path |-> <<p1, p2>>[t],
                                  looping |-> FALSE, keys |-> {},
                                  local_files |-> {}]]
    /\ shadow' = [start |-> dgraph, paths |-> <<p1, p2>>]
    /\ last' = [op |-> "called"]
    /\ UNCHANGED <<fs, dgraph, threadFrame>>

\* lines 558-563: the old dependencies are read and their edges removed
ThreadOldEdges(t) ==
    /\ pc[t].at = "old_edges"
    /\ LET path == pc[t].path
           old_dependencies == IF path \in dgraph.nodes
                               THEN Successors(dgraph, path) ELSE {}
       IN dgraph' = [dgraph EXCEPT
                        !.edges = @ \ {<<path, dep>> : dep \in old_dependencies}]
    /\ pc' = [pc EXCEPT ![t].at = "add_node"]
    /\ last' = [op |-> "step"]
    /\ UNCHANGED <<fs, shadow, threadFrame>>

\* lines 566-567: the node and the file_map entry
ThreadAddNode(t) ==
    /\ pc[t].at = "add_node"
    /\ dgraph' = [dgraph EXCEPT !.nodes = @ \cup {pc[t].path},
                                !.file_map = MapPut(@, pc[t].path, pc[t].path)]
    /\ pc' = [pc EXCEPT ![t].at = "iterate"]
    /\ last' = [op |-> "step"]
    /\ UNCHANGED <<fs, shadow, threadFrame>>

\* the imports of the file that _resolve_import_path has not memoised
Unmemoised(g, files, path) ==
    IF ~g.rooted THEN {}
    ELSE {imp \in ParseRawImports(files, path) :
             <<imp, path>> \notin DOMAIN g.import_cache}

\* line 570, first half: the file is parsed and, for an import that is not
\* memoised, the loop over file_map begins
ThreadIterate(t) ==
    /\ pc[t].at = "iterate"
    /\ pc' = [pc EXCEPT ![t].at = "resolve",
                        ![t].looping = Unmemoised(dgraph, fs, pc[t].path) # {},
                        ![t].keys = DOMAIN dgraph.file_map]
    /\ last' = [op |-> "step"]
    /\ UNCHANGED <<fs, dgraph, shadow, threadFrame>>

\* line 570, second half: the loop over file_map ends.  A dict that another
\* thread has grown in the meantime makes the iterator raise RuntimeError,
\* which add_or_update_file does not catch
ThreadResolve(t) ==
    /\ pc[t].at = "resolve"
    /\ IF pc[t].looping /\ DOMAIN dgraph.file_map # pc[t].keys
       THEN /\ pc' = [pc EXCEPT ![t].at = "raised", ![t].looping = FALSE,
                                ![t].keys = {}]
            /\ UNCHANGED dgraph
       ELSE \E r \in {ResolveLocalImports(dgraph, fs, pc[t].path)} :
               /\ dgraph' = r.g
               /\ pc' = [pc EXCEPT ![t].at = "add_edges", ![t].local_files = r.paths,
                                   ![t].looping = FALSE, ![t].keys = {}]
    /\ last' = [op |-> "step"]
    /\ UNCHANGED <<fs, shadow, threadFrame>>

\* lines 572-576: an edge for every resolved file that is in file_map
ThreadAddEdges(t) ==
    /\ pc[t].at = "add_edges"
    /\ dgraph' = AddEdges(dgraph, pc[t].path, pc[t].local_files)
    /\ pc' = [pc EXCEPT ![t].at = "returned", ![t].local_files = {}]
    /\ last' = [op |-> "step"]
    /\ UNCHANGED <<fs, shadow, threadFrame>>

\* both calls are over
ThreadsJoin ==
    /\ AllReturned
    /\ pc' = [t \in Threads |-> ThreadIdle]
    /\ shadow' = [start |-> EmptyGraph, paths |-> <<>>]
    /\ last' = [op |-> "joined"]
    /\ UNCHANGED <<fs, dgraph, threadFrame>>

\* the project and the graph change between the calls only
QuietWrite(p, c) == AllIdle /\ GraphWrite(p, c)

QuietBuild(list) == AllIdle /\ GraphBuild(list)

\* the graphs that the two calls leave when one runs after the other
SequentialOutcomes ==
    LET p1 == shadow.paths[1]
        p2 == shadow.paths[2]
    IN {AddOrUpdateFile(AddOrUpdateFile(shadow.start, fs, p1), fs, p2),
        AddOrUpdateFile(AddOrUpdateFile(shadow.start, fs, p2), fs, p1)}

ThreadNext ==
    \/ \E p \in GraphPaths, c \in GraphContents : QuietWrite(p, c)
    \/ \E list \in SUBSET GraphPaths : QuietBuild(list)
    \/ \E p1, p2 \in GraphPaths : ThreadsCall(p1, p2)
    \/ \E t \in Threads : ThreadOldEdges(t)
    \/ \E t \in Threads : ThreadAddNode(t)
    \/ \E t \in Threads : ThreadIterate(t)
    \/ \E t \in Threads : ThreadResolve(t)
    \/ \E t \in Threads : ThreadAddEdges(t)
    \/ ThreadsJoin

ThreadSpec == ThreadInit /\ [][ThreadNext]_vars

-----------------------------------------------------------------------------
(* Import resolution on strings and paths.  A string is a sequence of
   tokens: a name, "." or "/"; an extension is the name after a ".".
   A path is what pathlib makes of a string: its parts, each a string
   without "/", and whether it is anchored at the filesystem root. *)

Has(s, tok) == \E i \in 1..Len(s) : s[i] = tok

\* str.startswith
StartsWith(s, tok) == s # <<>> /\ s[1] = tok

\* str.lstrip(chars)
RECURSIVE LStrip(_, _)
LStrip(s, toks) ==
    IF s # <<>> /\ s[1] \in toks THEN LStrip(Tail(s), toks) ELSE s

\* str.replace('.' + ext, '')
RECURSIVE RemoveExt(_, _)
RemoveExt(s, ext) ==
    IF Len(s) < 2 THEN s
    ELSE IF s[1] = "." /\ s[2] = ext THEN RemoveExt(SubSeq(s, 3, Len(s)), ext)
    ELSE <<s[1]>> \o RemoveExt(Tail(s), ext)

\* str.rfind(tok), 0 when there is none
LastIndexOf(s, tok) ==
    IF Has(s, tok)
    THEN CHOOSE i \in 1..Len(s) : s[i] = tok /\ \A j \in (i + 1)..Len(s) : s[j] # tok
    ELSE 0

\* str.split('.')[-1]
LastComponent(s) == SubSeq(s, LastIndexOf(s, ".") + 1, Len(s))

\* str.endswith(('.js', '.ts', '.py', '.jsx', '.tsx'))
EndsWithExtension(s) ==
    /\ Len(s) >= 2
    /\ s[Len(s) - 1] = "."
    /\ s[Len(s)] \in {"js", "ts", "py", "jsx", "tsx"}

\* pathlib drops empty parts and "." parts
KeptPart(part) == IF part # <<>> /\ part # <<".">> THEN <<part>> ELSE <<>>

RECURSIVE SplitParts(_, _)
SplitParts(s, part) ==
    IF s = <<>> THEN KeptPart(part)
    ELSE IF s[1] = "/" THEN KeptPart(part) \o SplitParts(Tail(s), <<>>)
    ELSE SplitParts(Tail(s), Append(part, s[1]))

\* pathlib.Path(s)
PathOf(s) == [abs |-> StartsWith(s, "/"), parts |-> SplitParts(s, <<>>)]

RECURSIVE JoinParts(_)
JoinParts(parts) ==
    IF parts = <<>> THEN <<>>
    ELSE IF Len(parts) = 1 THEN parts[1]
    ELSE parts[1] \o <<"/">> \o JoinParts(Tail(parts))

\* str(path)
StrOf(p) ==
    IF p.abs THEN <<"/">> \o JoinParts(p.parts)
    ELSE IF p.parts = <<>> THEN <<".">>
    ELSE JoinParts(p.parts)

\* PurePath.stem of a file name: up to the last dot that is neither the
\* first nor the last character
StemOfName(name) ==
    LET i == LastIndexOf(name, ".")
    IN IF 1 < i /\ i < Len(name) THEN SubSeq(name, 1, i - 1) ELSE name

\* path.stem
Stem(p) == IF p.parts = <<>> THEN <<>> ELSE StemOfName(p.parts[Len(p.parts)])

\* path.with_suffix('')
WithSuffixEmpty(p) == [p EXCEPT !.parts[Len(p.parts)] = StemOfName(@)]

\* path.parent: the root is its own parent
Parent(p) ==
    IF p.parts = <<>> THEN p
    ELSE [p EXCEPT !.parts = SubSeq(@, 1, Len(@) - 1)]

RECURSIVE Ancestor(_, _)
Ancestor(p, levels) == IF levels = 0 THEN p ELSE Ancestor(Parent(p), levels - 1)

\* path / s
Over(p, s) ==
    IF StartsWith(s, "/") THEN PathOf(s)
    ELSE [p EXCEPT !.parts = @ \o SplitParts(s, <<>>)]

\* path.relative_to(root) does not raise ValueError
IsUnder(p, root) ==
    /\ p.abs = root.abs
    /\ Len(root.parts) <= Len(p.parts)
    /\ SubSeq(p.parts, 1, Len(root.parts)) = root.parts

\* _get_file_id: project_root is None or <<root>>
GetFileId(project_root, p) ==
    IF project_root # None /\ IsUnder(p, project_root[1])
    THEN StrOf([abs |-> FALSE,
                parts |-> SubSeq(p.parts, Len(project_root[1].parts) + 1, Len(p.parts))])
    ELSE StrOf(p)

\* the longest common prefix of two sequences of parts
RECURSIVE CommonPrefix(_, _)
CommonPrefix(a, b) ==
    IF a = <<>> \/ b = <<>> \/ a[1] # b[1] THEN <<>>
    ELSE <<a[1]>> \o CommonPrefix(Tail(a), Tail(b))

RECURSIVE CommonParts(_, _)
CommonParts(common, files) ==
    IF files = {} THEN common
    ELSE LET f == CHOOSE x \in files : TRUE
         IN CommonParts(CommonPrefix(common, Parent(f).parts), files \ {f})

\* _infer_project_root of a non-empty list of absolute paths
InferProjectRoot(files) ==
    LET first == CHOOSE f \in files : TRUE
    IN [abs |-> TRUE, parts |-> CommonParts(Parent(first).parts, files \ {first})]

\* _import_matches_file_id that lets a bare name match in any directory
ImportMatchesAnyDirectory(import_path, file_id) ==
    LET clean_import == RemoveExt(RemoveExt(RemoveExt(import_path, "js"), "ts"), "css")
        file_path == PathOf(file_id)
    IN IF ~Has(clean_import, "/") /\ ~Has(clean_import, ".")
          /\ Stem(file_path) = clean_import
       THEN TRUE
       ELSE WithSuffixEmpty(file_path) = PathOf(clean_import)

\* _import_matches_file_id
ImportMatchesFileId(import_path, file_id) ==
    LET clean_import == RemoveExt(RemoveExt(RemoveExt(import_path, "js"), "ts"), "css")
        file_path == PathOf(file_id)
    IN IF ~Has(clean_import, "/") /\ ~Has(clean_import, ".")
          /\ Stem(file_path) = clean_import
       THEN ~Has(file_id, "/")
       ELSE WithSuffixEmpty(file_path) = PathOf(clean_import)

\* _resolve_relative_import: the candidates that exist on disk
ResolveRelativeImport(files, import_path, from_file) ==
    LET clean_name == LStrip(import_path, {".", "/"})
        dot_count == Len(import_path) - Len(LStrip(import_path, {"."}))
        levels == IF dot_count > 1 THEN dot_count - 1 ELSE 0
        start_dir == Ancestor(Parent(from_file), levels)
        potential_paths ==
            IF EndsWithExtension(clean_name)
            THEN {Over(start_dir, clean_name)}
            ELSE {Over(start_dir, clean_name \o <<".", ext>>) :
                      ext \in {"py", "ts", "js", "jsx", "tsx"}}
                 \cup {Over(Over(start_dir, clean_name), <<"__init__", ".", "py">>)}
    IN {p \in potential_paths : p \in DOMAIN files /\ p # from_file}

\* Strategy 3 of _resolve_import_path left out
NoLastComponentMatches(g, import_path, from_file) == {}

\* Strategy 3 of _resolve_import_path that skips the test for the
\* importing file
LastComponentMatchesWithSelf(g, import_path, from_file) ==
    IF Has(import_path, ".") /\ ~StartsWith(import_path, ".")
    THEN {g.file_map[id] : id \in {i \in DOMAIN g.file_map :
              Stem(PathOf(i)) = LastComponent(import_path)}}
    ELSE {}

\* Strategy 3 of _resolve_import_path: the last component of a dotted import
LastComponentMatches(g, import_path, from_file) ==
    IF Has(import_path, ".") /\ ~StartsWith(import_path, ".")
    THEN {g.file_map[id] : id \in {i \in DOMAIN g.file_map :
              /\ g.file_map[i] # from_file
              /\ Stem(PathOf(i)) = LastComponent(import_path)}}
    ELSE {}

\* Strategy 2 of _resolve_import_path: the file ids that match the import
FileIdMatches(g, import_path, from_file) ==
    {g.file_map[id] : id \in {i \in DOMAIN g.file_map :
        /\ g.file_map[i] # from_file
        /\ ImportMatchesFileId(import_path, i)}}

\* _resolve_import_path: [g, paths]
ResolveImportPathIn(g, files, import_path, from_file) ==
    LET cache_key == <<import_path, from_file>>
        relative == IF StartsWith(import_path, ".")
                    THEN ResolveRelativeImport(files, import_path, from_file)
                    ELSE {}
        resolved_paths == relative
                          \cup FileIdMatches(g, import_path, from_file)
                          \cup LastComponentMatches(g, import_path, from_file)
    IN IF cache_key \in DOMAIN g.import_cache
       THEN [g |-> g, paths |-> g.import_cache[cache_key]]
       ELSE [g |-> [g EXCEPT !.import_cache = MapPut(@, cache_key, resolved_paths)],
             paths |-> resolved_paths]

\* _resolve_local_imports: [g, paths]
RECURSIVE ResolveAllIn(_, _, _, _, _)
ResolveAllIn(g, files, todo, from_file, acc) ==
    IF todo = {} THEN [g |-> g, paths |-> acc]
    ELSE LET imp == CHOOSE i \in todo : TRUE
             r == ResolveImportPathIn(g, files, imp, from_file)
         IN ResolveAllIn(r.g, files, todo \ {imp}, from_file, acc \cup r.paths)

ResolveLocalImportsIn(g, files, path) ==
    IF g.project_root = None THEN [g |-> g, paths |-> {}]
    ELSE ResolveAllIn(g, files, ParseRawImports(files, path), path, {})

\* the loop over the resolved dependencies: an edge to each one whose id is
\* in file_map
RECURSIVE AddEdgesIn(_, _, _)
AddEdgesIn(g, u, deps) ==
    IF deps = {} THEN g
    ELSE LET d == CHOOSE x \in deps : TRUE
             dep_id == GetFileId(g.project_root, d)
         IN AddEdgesIn(IF dep_id \in DOMAIN g.file_map THEN AddEdge(g, u, dep_id) ELSE g,
                       u, deps \ {d})

EmptyTreeGraph ==
    [nodes |-> {}, edges |-> {}, file_map |-> EmptyMap,
     import_cache |-> EmptyMap, project_root |-> None]

\* remove_file
RemoveFileIn(g, path) ==
    LET file_identifier == GetFileId(g.project_root, path)
    IN IF file_identifier \in g.nodes
       THEN [RemoveNode(g, file_identifier) EXCEPT !.file_map = MapDel(@, file_identifier)]
       ELSE g

\* add_or_update_file
AddOrUpdateFileIn(g, files, path) ==
    LET file_identifier == GetFileId(g.project_root, path)
        old_dependencies == IF file_identifier \in g.nodes
                            THEN Successors(g, file_identifier) ELSE {}
        g1 == [g EXCEPT !.edges = @ \ {<<file_identifier, dep>> : dep \in old_dependencies},
                        !.nodes = @ \cup {file_identifier},
                        !.file_map = MapPut(@, file_identifier, path)]
        r == ResolveLocalImportsIn(g1, files, path)
    IN AddEdgesIn(r.g, file_identifier, r.paths)

\* move_file
MoveFileIn(g, files, old_path, new_path) ==
    IF GetFileId(g.project_root, old_path) \notin g.nodes
    THEN AddOrUpdateFileIn(g, files, new_path)
    ELSE IF old_path # new_path
    THEN AddOrUpdateFileIn(RemoveFileIn(g, old_path), files, new_path)
    ELSE AddOrUpdateFileIn(g, files, new_path)

\* build: the second loop, over the files not yet processed
RECURSIVE BuildEdgesIn(_, _, _)
BuildEdgesIn(g, files, todo) ==
    IF todo = {} THEN g
    ELSE LET path == CHOOSE p \in todo : TRUE
             r == ResolveLocalImportsIn(g, files, path)
         IN BuildEdgesIn(AddEdgesIn(r.g, GetFileId(g.project_root, path), r.paths),
                         files, todo \ {path})

\* build(list): the project root is inferred by the first build of a
\* non-empty list and kept
BuildIn(g, files, list) ==
    LET project_root == IF g.project_root = None /\ list # {}
                        THEN <<InferProjectRoot(list)>> ELSE g.project_root
        ids == {GetFileId(project_root, p) : p \in list}
    IN BuildEdgesIn([nodes |-> ids, edges |-> {},
                     file_map |-> [id \in ids |->
                                     CHOOSE p \in list : GetFileId(project_root, p) = id],
                     import_cache |-> EmptyMap,
                     project_root |-> project_root],
                    files, list)

(* The project tree of ResolverSpec: a directory ws with two packages, and
   one file next to ws.  One file of the tree holds one import. *)
TreeFile(dirs, name) ==
    [abs |-> TRUE, parts |-> dirs \o << <<name, ".", "py">> >>]

Ws == << <<"ws">> >>

Pkg1 == << <<"ws">>, <<"pkg1">> >>

Pkg2 == << <<"ws">>, <<"pkg2">> >>

TreeFiles ==
    {TreeFile(<<>>, "utils"), TreeFile(Ws, "utils"), TreeFile(Ws, "main"),
     TreeFile(Pkg1, "utils"), TreeFile(Pkg2, "utils")}

ImportStrings ==
    {<<"utils">>,
     <<"pkg1", ".", "utils">>,
     <<"requests", ".", "utils">>,
     <<"pkg1", "/", "utils">>,
     <<".", "utils">>,
     <<".", ".", "utils">>,
     <<".", ".", ".", "utils">>,
     <<".", "/", "utils">>,
     <<".">>}

\* the moves of a file in one behaviour
MaxMoves == 1

resolverFrame == <<vdb, disk, running, queue, pc>>

ResolverInit ==
    /\ \E present \in SUBSET TreeFiles, importer \in TreeFiles, imp \in ImportStrings :
          /\ importer \in present
          /\ fs = [p \in present |-> IF p = importer THEN {imp} ELSE {}]
    /\ vdb = EmptyStore
    /\ disk = Flush(EmptyStore)
    /\ dgraph = EmptyTreeGraph
    /\ running = TRUE
    /\ queue = <<>>
    /\ pc = NoEvent
    /\ shadow = [moves |-> 0]
    /\ last = [op |-> "init"]

\* the imports of the file behind a node
ImportsOf(u) ==
    IF u \in DOMAIN dgraph.file_map
    THEN ParseRawImports(fs, dgraph.file_map[u]) ELSE {}

\* import a.b.c, as opposed to a bare, a relative or a path import
DottedAbsolute(imp) == Has(imp, ".") /\ ~StartsWith(imp, ".") /\ ~Has(imp, "/")

\* the module file that Python means by import a.b.c, without its suffix
ModulePath(imp) ==
    PathOf([i \in 1..Len(imp) |-> IF imp[i] = "." THEN "/" ELSE imp[i]])

\* the import names no file of the project
NamesExternalPackage(imp) ==
    \A id \in DOMAIN dgraph.file_map : WithSuffixEmpty(PathOf(id)) # ModulePath(imp)

\* the directories that an Indexer is started on
TreeRoots == {[abs |-> TRUE, parts |-> dirs] : dirs \in {<<>>, Ws, Pkg1}}

\* build over the files found under a directory
ResolverBuild(root) ==
    /\ \E list \in {{p \in DOMAIN fs : IsUnder(p, root)}} :
          /\ list # {}
          /\ dgraph' = BuildIn(dgraph, fs, list)
    /\ last' = [op |-> "build"]
    /\ UNCHANGED <<fs, shadow, resolverFrame>>

ResolverAddOrUpdate(p) ==
    /\ p \in DOMAIN fs
    /\ dgraph' = AddOrUpdateFileIn(dgraph, fs, p)
    /\ last' = [op |-> "add_or_update_file"]
    /\ UNCHANGED <<fs, shadow, resolverFrame>>

\* the file at p has been moved to q on disk, then move_file(p, q)
ResolverMove(p, q) ==
    /\ shadow.moves < MaxMoves
    /\ p \in DOMAIN fs /\ q \notin DOMAIN fs
    /\ fs' = [x \in (DOMAIN fs \ {p}) \cup {q} |-> IF x = q THEN fs[p] ELSE fs[x]]
    /\ dgraph' = MoveFileIn(dgraph, fs', p, q)
    /\ shadow' = [moves |-> shadow.moves + 1]
    /\ last' = [op |-> "move_file"]
    /\ UNCHANGED resolverFrame

ResolverNext ==
    \/ \E root \in TreeRoots : ResolverBuild(root)
    \/ \E p \in TreeFiles : ResolverAddOrUpdate(p)
    \/ \E p, q \in TreeFiles : ResolverMove(p, q)

ResolverSpec == ResolverInit /\ [][ResolverNext]_vars

----------------------------------------------------------------------------
(* The transitive queries of DepGraph, on every graph over three files     *)

ClosurePaths == {"a.py", "b.py", "c.py"}

\* the breadth-first search of networkx, one level per step
RECURSIVE BfsForward(_, _, _)
BfsForward(g, frontier, visited) ==
    IF frontier = {} THEN visited
    ELSE LET next == UNION {Successors(g, u) : u \in frontier} \ visited
         IN BfsForward(g, next, visited \cup next)

RECURSIVE BfsBackward(_, _, _)
BfsBackward(g, frontier, visited) ==
    IF frontier = {} THEN visited
    ELSE LET next == UNION {Predecessors(g, u) : u \in frontier} \ visited
         IN BfsBackward(g, next, visited \cup next)

\* a search that does not mark its source as visited
DescendantsWithSource(g, source) == BfsForward(g, {source}, {})

\* nx.descendants, nx.ancestors: the nodes the search reaches, without the source
Descendants(g, source) == BfsForward(g, {source}, {source}) \ {source}

Ancestors(g, source) == BfsBackward(g, {source}, {source}) \ {source}

\* get_direct_dependencies, get_all_dependencies, get_all_dependents
GetDirectDependencies(g, path) ==
    IF path \notin g.nodes THEN {} ELSE Successors(g, path)

GetAllDependencies(g, path) ==
    IF path \notin g.nodes THEN {} ELSE Descendants(g, path)

GetAllDependents(g, path) ==
    IF path \notin g.nodes THEN {} ELSE Ancestors(g, path)

\* ghost: v is reached from u by one or more steps along direct dependencies
DependsOn(g, u, v) ==
    \E n \in 1..Cardinality(ClosurePaths) :
       \E walk \in [0..n -> ClosurePaths] :
          /\ walk[0] = u /\ walk[n] = v
          /\ \A i \in 0..(n - 1) : walk[i + 1] \in GetDirectDependencies(g, walk[i])

\* the graphs build can make of the files: any edges between distinct nodes
ClosureGraphs ==
    {[nodes |-> ns, edges |-> es, file_map |-> [p \in ns |-> p],
      import_cache |-> EmptyMap, rooted |-> TRUE] :
        ns \in SUBSET ClosurePaths,
        es \in SUBSET {e \in ClosurePaths \X ClosurePaths : e[1] # e[2]}}

ClosureInit ==
    /\ fs = EmptyMap
    /\ vdb = EmptyStore
    /\ disk = Flush(EmptyStore)
    /\ dgraph \in {g \in ClosureGraphs : \A e \in g.edges : {e[1], e[2]} \subseteq g.nodes}
    /\ running = TRUE
    /\ queue = <<>>
    /\ pc = NoEvent
    /\ shadow = [mem |-> EmptyMap, disk |-> EmptyMap]
    /\ last = [op |-> "init"]

ClosureQuery(p) ==
    /\ last' = [op |-> "all", path |-> p,
                deps |-> GetAllDependencies(dgraph, p),
                dependents |-> GetAllDependents(dgraph, p)]
    /\ UNCHANGED <<fs, dgraph, graphFrame>>

ClosureNext == \E p \in ClosurePaths : ClosureQuery(p)

ClosureSpec == ClosureInit /\ [][ClosureNext]_vars

----------------------------------------------------------------------------
(* Claims about the VectorDB on its own (StoreSpec)                        *)

\* C3: for every id present in the store, get_vector(id) returns exactly the
\* vector passed to the most recent add of that id and leaves the maps
\* unchanged; it returns nothing only for an id that is not present.
C3_GetVectorReturnsLastAdded ==
    last.op = "get_vector" =>
        IF last.present
        THEN last.ret = shadow.mem[last.path].vec /\ ~last.changed
        ELSE last.ret = None

\* C4: between operations the handles held by the index are exactly the
\* handles of path_to_faiss_id and of meta_data.
C4_IndexAndMapsHoldSameHandles ==
    /\ IndexIds(vdb.index) = DOMAIN vdb.meta_data
    /\ IndexIds(vdb.index) = Range(vdb.path_to_faiss_id)

\* C5: flush followed by constructing a store over the same cache directory
\* yields maps, next handle and index equal to those before the flush.
C5_FlushThenLoadRestoresStore ==
    (last.op = "load" /\ last.flushed) => last.same

----------------------------------------------------------------------------
(* Claims about the Indexer (Spec; C8 under DaemonSpec)                     *)

\* C1: after build_index returns, the live store holds an entry for an id
\* if and only if that id is a file discovered and read in this build (an
\* embedding failure makes build_index raise, so last.ok); for an empty
\* project the store is empty and query returns the empty list.
C1_BuildStartsFromEmptyStore ==
    (last.op = "build" /\ last.ok) =>
        /\ DOMAIN vdb.path_to_faiss_id = Discovered(fs) \ last.unread
        /\ {vdb.meta_data[h].path : h \in DOMAIN vdb.meta_data}
              = Discovered(fs) \ last.unread
        /\ Discovered(fs) = {} =>
              /\ Ntotal(vdb.index) = 0
              /\ \A t \in QueryTexts, k \in 1..MaxTopK :
                    Search(vdb, EmbedVec(t), k) = {<<>>}

\* C2: a rebuild that directly follows a build on an unchanged filesystem
\* (every file read in both) calls the embedding client for no file and
\* leaves ids, contentHashes and vectors as they were.
C2_RebuildIsIdempotent ==
    (last.op = "build" /\ last.ok /\ last.unread = {} /\ last.afterBuild) =>
        last.embedded = {} /\ last.sameView

\* C6: if the embedding call fails during a created or modified event for an
\* id that is in the store, the store still holds its previous entry after
\* the event.
C6_EmbeddingFailureKeepsPreviousEntry ==
    (/\ last.op = "event" /\ last.kind \in {"created", "modified"}
     /\ last.embFailed /\ last.hadPrev)
        => last.keptPrev

\* C7: if the embedding call fails for one file during build_index, the
\* build still completes: every other discovered file is in the store, the
\* live store is the flushed one, and the dependency graph is rebuilt.
C7_BuildSkipsOnlyTheFailingFile ==
    (last.op = "build" /\ last.failedAt # "none") =>
        /\ last.ok
        /\ Discovered(fs) \ ({last.failedAt} \cup last.unread)
              \subseteq DOMAIN vdb.path_to_faiss_id
        /\ disk = Flush(vdb)
        /\ dgraph = Discovered(fs)

\* C8: a query that runs while the watcher thread is inside a modified event
\* for an indexed id never observes a store from which that id is missing.
C8_QuerySeesConsistentSnapshot ==
    (/\ last.op = "query" /\ last.full
     /\ pc.at = "embedding" /\ pc.kind = "modified" /\ pc.prev # None)
        => \E i \in 1..Len(last.ret) : last.ret[i].path = pc.path

\* C9: after build_index and a move of a file on disk, the moved event
\* leaves src absent from the store and from the dependency graph, and dst
\* in the store with the contentHash src had.
C9_MoveEventMovesTheEntry ==
    (/\ last.op = "event" /\ last.kind = "moved" /\ last.scenario
     /\ last.fault = "none")
        => /\ last.src \notin DOMAIN vdb.path_to_faiss_id
           /\ last.src \notin dgraph
           /\ last.hashOfSrc

\* C10: a rebuild calls the embedding client exactly for the discovered
\* files that are new or whose contentHash differs from the snapshot.
C10_EmbedsExactlyNewOrChanged ==
    (last.op = "build" /\ last.ok) => last.embedded = last.newOrChanged

----------------------------------------------------------------------------
(* Claims about event delivery (DeliverySpec)                              *)

----------------------------------------------------------------------------
(* Claims about a flush that fails (FlushSpec)                             *)

\* C12: when flush raises inside process_file_event (created, modified or
\* deleted) or inside build_index, the exception reaches the caller of that
\* operation.
C12_FlushFailureReachesCaller ==
    (last.op = "flush_stopped" /\ last.how = "raised") => last.reached

\* C13: after a flush that raised or was cut short, the cache directory
\* holds either the complete state from before the flush or the complete
\* state the flush was writing.
C13_FlushIsAllOrNothing ==
    last.op = "flush_stopped" => last.whole

----------------------------------------------------------------------------
(* Claims about convergence (ConvergeSpec)                                 *)

\* C14: whenever the daemon runs and every delivered event has been
\* handled, the store maps exactly the relevant files of the project, each
\* to the hash of its current content, whatever builds, restarts and events
\* came before.
C14_StoreConvergesToProject ==
    Drained => StoreHashes(vdb) = FileHashes(fs)

----------------------------------------------------------------------------
(* Claims about events for irrelevant paths (RelevanceSpec)                *)

----------------------------------------------------------------------------
(* Further claims about the VectorDB (StoreSpec; C17 under MetaSpec)       *)

\* C16: the two maps agree: every path of path_to_faiss_id maps to a handle
\* whose metadata names that path, and every handle of meta_data is the
\* handle that path_to_faiss_id gives to the path its metadata names.
C16_MapsAreMutuallyConsistent ==
    /\ \A p \in DOMAIN vdb.path_to_faiss_id :
          /\ vdb.path_to_faiss_id[p] \in DOMAIN vdb.meta_data
          /\ vdb.meta_data[vdb.path_to_faiss_id[p]].path = p
    /\ \A h \in DOMAIN vdb.meta_data :
          /\ vdb.meta_data[h].path \in DOMAIN vdb.path_to_faiss_id
          /\ vdb.path_to_faiss_id[vdb.meta_data[h].path] = h

C16_Witness ==
    /\ last.op = "get_vector" /\ last.changed
    /\ vdb.path_to_faiss_id # EmptyMap

\* C17: after any sequence of add and remove_by_path, get_meta_by_path of a
\* path returns the path and the hash of its last add if the path was
\* added and not removed since, and nothing otherwise; no path has more
\* than one metadata entry.
C17_GetMetaReturnsLastAdd ==
    /\ last.op = "get_meta" =>
          last.ret = IF last.path \in DOMAIN shadow.mem
                     THEN <<[path |-> last.path, hash |-> shadow.mem[last.path].hash]>>
                     ELSE None
    /\ \A p \in Paths :
          Cardinality({h \in DOMAIN vdb.meta_data : vdb.meta_data[h].path = p}) <= 1

C17_Witness ==
    /\ last.op = "get_meta" /\ last.ret # None
    /\ vdb.path_to_faiss_id[last.path] > 0
    /\ last.ret[1].hash = 11

\* C18: search returns at most top_k rows in order of non-decreasing
\* distance; every row names a path that is present, with the hash of its
\* last add; the result is empty when the index is empty.
C18_SearchReturnsCurrentEntries ==
    last.op = "search" =>
        /\ Len(last.ret) <= last.k
        /\ \A i, j \in 1..Len(last.ret) : i < j => last.ret[i].score <= last.ret[j].score
        /\ \A i \in 1..Len(last.ret) :
              /\ last.ret[i].path \in DOMAIN shadow.mem
              /\ last.ret[i].hash = shadow.mem[last.ret[i].path].hash
        /\ Ntotal(vdb.index) = 0 => last.ret = <<>>

C18_Witness ==
    /\ last.op = "search" /\ last.k = 2 /\ Len(last.ret) = 1
    /\ Ntotal(vdb.index) = 1
    /\ vdb.next_faiss_id = 3

----------------------------------------------------------------------------
(* Claims about the DepGraph (GraphSpec, ClosureSpec)                      *)

\* C19: both ends of every edge are nodes, and the nodes are exactly the
\* keys of file_map.
C19_EdgesJoinNodesAndNodesAreFiles ==
    /\ \A e \in dgraph.edges : e[1] \in dgraph.nodes /\ e[2] \in dgraph.nodes
    /\ dgraph.nodes = DOMAIN dgraph.file_map

C19_Witness ==
    /\ last.op = "remove_file" /\ last.was
    /\ \E p \in DOMAIN fs : \E imp \in fs[p] :
          /\ p \in dgraph.nodes
          /\ imp.to \in DOMAIN fs /\ imp.to \notin dgraph.nodes

\* C21: an edge that comes from a bare import (no dot, no slash) leads to
\* a root-level file whose base name is the import, never to a file inside
\* a subdirectory.
C21_BareImportMatchesRootLevelOnly ==
    \A e \in dgraph.edges : \A imp \in ImportsOf(e[1]) :
        (~Has(imp, ".") /\ ~Has(imp, "/")) =>
            /\ ~Has(e[2], "/")
            /\ Stem(PathOf(e[2])) = imp

\* a bare import has its edge while a file of that name in a subdirectory
\* is a node
C21_Witness ==
    \E e \in dgraph.edges : \E imp \in ImportsOf(e[1]) :
        /\ ~Has(imp, ".") /\ ~Has(imp, "/")
        /\ \E id \in dgraph.nodes : Has(id, "/") /\ Stem(PathOf(id)) = imp

\* C22: after a build, a file with a dotted absolute import depends on the
\* project file at the path the import names and on every other project
\* file whose base name is the import's last segment.
C22_DottedImportIsInclusive ==
    last.op = "build" =>
        \A u \in dgraph.nodes : \A imp \in ImportsOf(u) :
            DottedAbsolute(imp) =>
                \A v \in DOMAIN dgraph.file_map \ {u} :
                    (\/ WithSuffixEmpty(PathOf(v)) = ModulePath(imp)
                     \/ Stem(PathOf(v)) = LastComponent(imp))
                        => <<u, v>> \in dgraph.edges

\* import pkg1.utils with pkg1/utils.py and pkg2/utils.py in the project
C22_Witness ==
    /\ last.op = "build"
    /\ \E u \in dgraph.nodes :
          /\ <<"pkg1", ".", "utils">> \in ImportsOf(u)
          /\ <<u, <<"pkg1", "/", "utils", ".", "py">> >> \in dgraph.edges
          /\ <<u, <<"pkg2", "/", "utils", ".", "py">> >> \in dgraph.edges

\* C28: the graph never holds an edge from a node to itself, whatever the
\* import form, after build, add_or_update_file and move_file.
C28_NoSelfEdge == \A e \in dgraph.edges : e[1] # e[2]

\* a moved file whose import matches its own new name keeps its other edges
C28_Witness ==
    /\ last.op = "move_file"
    /\ \E u \in dgraph.nodes : \E imp \in ImportsOf(u) :
          /\ DottedAbsolute(imp)
          /\ Stem(PathOf(u)) = LastComponent(imp)
          /\ Successors(dgraph, u) # {}

\* C29: for a file under the project root R and a relative import, every
\* resolved path lies under R and no edge leads to a file outside R.
C29_RelativeImportStaysUnderRoot ==
    dgraph.project_root # None =>
        \A u \in DOMAIN dgraph.file_map : \A imp \in ImportsOf(u) :
            (StartsWith(imp, ".") /\ IsUnder(dgraph.file_map[u], dgraph.project_root[1])) =>
                /\ \A p \in ResolveRelativeImport(fs, imp, dgraph.file_map[u]) :
                      IsUnder(p, dgraph.project_root[1])
                /\ \A v \in Successors(dgraph, u) \cap DOMAIN dgraph.file_map :
                      IsUnder(dgraph.file_map[v], dgraph.project_root[1])

\* C30: after a build, a file whose dotted absolute import names no project
\* file has no dependency, whatever the base names of the project files.
C30_ExternalDottedImportHasNoEdge ==
    last.op = "build" =>
        \A u \in dgraph.nodes : \A imp \in ImportsOf(u) :
            (DottedAbsolute(imp) /\ NamesExternalPackage(imp)) =>
                Successors(dgraph, u) = {}

\* C23: when two threads call add_or_update_file on one DepGraph at the same
\* time, both calls return without an error and the nodes and edges left
\* are those that one of the two sequential orders leaves.
C23_ConcurrentUpdatesAreSerializable ==
    AllReturned =>
        /\ \A t \in Threads : pc[t].at = "returned"
        /\ \E g \in SequentialOutcomes :
              dgraph.nodes = g.nodes /\ dgraph.edges = g.edges

HandlesInStore ==
    IndexIds(vdb.index) \cup DOMAIN vdb.meta_data \cup Range(vdb.path_to_faiss_id)

C26_RemoveReportsPresenceAndRemoves ==
    last.op = "remove_by_path" =>
        /\ last.ret = last.present
        /\ last.path \notin DOMAIN vdb.path_to_faiss_id
        /\ last.present =>
              /\ last.handle \notin DOMAIN vdb.meta_data
              /\ last.handle \notin IndexIds(vdb.index)

\* C25: whenever an event handler has returned, the cache directory holds
\* exactly what a flush of the in-memory store would write, also when the
\* embedding call of that event failed.
C25_DiskEqualsMemoryAfterEvent ==
    last.op \in {"delivered", "redelivered"} => disk = Flush(vdb)

\* C24: after add_or_update_file(p) the file is a node and its outgoing
\* edges lead exactly to the nodes that its current imports resolve to
\* against the current file_map, whatever was memoised earlier.
C24_UpdateUsesCurrentResolution ==
    last.op = "add_or_update_file" =>
        /\ last.path \in dgraph.nodes
        /\ Successors(dgraph, last.path) = FreshDependencies(dgraph, fs, last.path)

\* C20: get_all_dependencies of a file is the set of files other than
\* itself that it reaches along direct dependencies, get_all_dependents
\* the set of other files that reach it, in cyclic graphs too; both are
\* empty for a file that is not in the graph.
C20_AllDepsIsTransitiveClosure ==
    last.op = "all" =>
        /\ last.deps = {v \in ClosurePaths \ {last.path} : DependsOn(dgraph, last.path, v)}
        /\ last.dependents = {v \in ClosurePaths \ {last.path} : DependsOn(dgraph, v, last.path)}
        /\ last.path \notin dgraph.nodes => last.deps = {} /\ last.dependents = {}

C20_Witness ==
    /\ last.op = "all"
    /\ DependsOn(dgraph, last.path, last.path)
    /\ Cardinality(last.deps) = 2 /\ Cardinality(last.dependents) = 1

====
